---- MODULE Spec2Model ----
(***************************************************************************)
(* Model of quichesaver/quichesaver.py and quichesaver/product.py: one     *)
(* Telegram user's session (context.user_data), the dispatcher thread that *)
(* runs the command handlers one at a time, and the monitor threads that   *)
(* start() creates.                                                        *)
(*                                                                         *)
(* Granularity: a handler's statements after its last blocking call (the   *)
(* page fetch of Product(), the lock acquisition) are one step; a monitor  *)
(* thread steps once per lock acquisition (line 28), once per loop         *)
(* iteration (lines 33-61, ending in the ITEM_INTERVAL sleep) and once for *)
(* the removal and release (lines 64-68).                                  *)
(***************************************************************************)
EXTENDS Integers, Sequences, FiniteSets

\* quichesaver.py:18 is MAX_ITEMS = 100; scaled down so that the capacity
\* branch of add_item is reached.
MAX_ITEMS == 1

\* Bounds of the model.
MaxStarts == 2      \* /start commands handled (monitor threads created)
MaxPrice == 2       \* prices range over 1..MaxPrice

\* Product objects ever appended (object identities): as many as it takes to
\* fill the list past MAX_ITEMS.
MaxAdds == MAX_ITEMS + 1

VARIABLES
    products,   \* context.user_data["products"]
    lock,       \* context.user_data["lock"]: identity of the RLock, 0 = key absent
    thread,     \* the monitor threads: thread[t] is the one the t-th start() made
    disp,       \* the dispatcher thread: the command whose handler is running,
                \* "none" between updates, "stopped" once the updater stopped
    reply,      \* what the handler that returned in the last step replied
    notified,   \* the notifications the monitor step just taken sent
    nextId      \* identity of the next Product object appended

vars == <<products, lock, thread, disp, reply, notified, nextId>>

Threads == 1..MaxStarts
Prices == 1..MaxPrice
\* The max price users give: below the top price, so that a price can be
\* above the threshold as well as at or below it.
MaxPrices == {MaxPrice - 1}
Commands == {"start", "add", "remove", "status"}

\* remove's argument: a non-integer text, or an integer. A reply keeps the
\* integer argument of its command as <<position>>, and <<>> otherwise.
Positions == (0 - (MAX_ITEMS + 1))..(MAX_ITEMS + 2)

\* The outcomes of one update_product_info() call in a round: the parser's
\* result, a page load timeout, or another exception of the driver or the
\* parser.
Outcomes ==
    [kind : {"ok"}, price : Prices, available : BOOLEAN]
    \cup [kind : {"timeout", "error"}, price : {1}, available : {FALSE}]

\* The locals of monitor_items: the lock held, the loop index i (from 1), the
\* length n of the range, the mask. Of the round so far the model also keeps
\* seen (the items extracted, as extracted), unchanged (every extraction
\* returned the price and availability the item held) and silent (no
\* notification was sent); err is the exception that ended the thread.
NoThread ==
    [pc |-> "none", held |-> 0, i |-> 0, n |-> 0, matched |-> <<>>,
     seen |-> <<>>, unchanged |-> TRUE, silent |-> TRUE, err |-> "none"]

\* No handler returned in the last step.
NoReply == [cmd |-> "none", arg |-> <<>>, result |-> "none"]

\* Handler c, called with argument a, returned after replying r ("exception"
\* when an exception left it instead).
Done(c, a, r) == [cmd |-> c, arg |-> a, result |-> r]

\* A lock is free when no monitor thread holds it (the dispatcher never holds
\* one across a step).
LockFree(l) == \A t \in Threads : thread[t].held # l

Init ==
    /\ products = <<>>
    /\ lock = 0
    /\ thread = [t \in Threads |-> NoThread]
    /\ disp = "none"
    /\ reply = NoReply
    /\ notified = <<>>
    /\ nextId = 1

----------------------------------------------------------------------------
\* product.py

\* Product.__init__ after a successful first extraction.
NewProduct(id, price, available, max_price) ==
    [id |-> id, price |-> price, available |-> available,
     max_price |-> max_price, unreachable_count |-> 0]

\* A variant of update_product_info that does not store the availability.
UpdateProductInfoKeepsAvailable(prod, info) ==
    [prod EXCEPT !.price = info.price]

\* Product.update_product_info, extraction succeeded: lines 77-79.
UpdateProductInfo(prod, info) ==
    [prod EXCEPT !.price = info.price, !.available = info.available]

\* A variant of a failed extraction that records the item as unavailable.
FailedUpdateMarksUnavailable(prod, kind) ==
    [prod EXCEPT !.available = FALSE,
                 !.unreachable_count = IF kind = "timeout" THEN @ + 1 ELSE @]

\* Product.get_html / update_product_info, extraction failed: a timeout
\* counts (line 56), any other failure leaves the object alone.
FailedUpdate(prod, kind) ==
    IF kind = "timeout"
    THEN [prod EXCEPT !.unreachable_count = @ + 1]
    ELSE prod

----------------------------------------------------------------------------
\* quichesaver.py: monitor_items

\* A variant of the restock condition that does not look at the old state.
BackInStockIgnoresOld(info_old, info) == info.available

\* Line 46: the restock condition.
BackInStock(info_old, info) == ~info_old.available /\ info.available

\* A variant of the threshold condition that does not look at availability.
BelowMaxPriceIgnoresAvailable(info, max_price) == info.price <= max_price

\* Lines 53-54: the threshold condition.
BelowMaxPrice(info, max_price) == info.available /\ info.price <= max_price

\* Lines 47-50 and 55-58: the two messages.
RestockNote(id) == [kind |-> "restock", id |-> id]
ThresholdNote(id) == [kind |-> "threshold", id |-> id]

\* Lines 64-65: the items not matched, in order.
RECURSIVE KeepUnmatched(_, _, _)
KeepUnmatched(seq, matched, k) ==
    IF k > Len(seq) THEN <<>>
    ELSE (IF matched[k] THEN <<>> ELSE <<seq[k]>>)
         \o KeepUnmatched(seq, matched, k + 1)

\* Line 43 logs both: the extraction returned what the item held.
SameInfo(info_old, info) ==
    info.price = info_old.price /\ info.available = info_old.available

\* The round's record of an item as extracted.
SeenEntry(info_old, info) ==
    [id |-> info_old.id, price |-> info.price, available |-> info.available,
     max_price |-> info_old.max_price]

\* A variant in which the exception leaves the lock acquired.
DiesHoldingLock(th, exc) ==
    [NoThread EXCEPT !.pc = "dead", !.err = exc, !.held = th.held]

\* Exception exc leaves monitor_items: the with statement releases the lock
\* and the thread ends.
Dies(th, exc) == [NoThread EXCEPT !.pc = "dead", !.err = exc]

\* A variant of the end of a round that does not release the lock.
SleepsHoldingLock(th) == [NoThread EXCEPT !.pc = "wait", !.held = th.held]

\* Lines 67-68: the with block is left, the lock released, and the thread
\* sleeps until the next round.
Sleeps(th) == [NoThread EXCEPT !.pc = "wait"]

\* Lines 26-32: acquire the session's current lock, build the mask and the
\* range.
BeginRound(t) ==
    /\ thread[t].pc = "wait"
    /\ LockFree(lock)
    /\ thread' = [thread EXCEPT ![t] =
            [NoThread EXCEPT !.pc = "check", !.held = lock, !.i = 1,
                             !.n = Len(products),
                             !.matched = [k \in 1..Len(products) |-> FALSE]]]
    /\ notified' = <<>>
    /\ reply' = NoReply
    /\ UNCHANGED <<products, lock, disp, nextId>>

\* Lines 33-61: one iteration of the loop over range(len(products)).
CheckItem(t) ==
    LET th == thread[t]
        i == th.i
    IN
    /\ th.pc = "check"
    /\ i <= th.n
    /\ IF i > Len(products)
       THEN \* line 33: the list was replaced by a shorter one
            /\ thread' = [thread EXCEPT ![t] = Dies(th, "IndexError")]
            /\ notified' = <<>>
            /\ UNCHANGED products
       ELSE \E out \in Outcomes :
            LET info_old == products[i] IN
            IF out.kind = "ok"
            THEN LET restock == BackInStock(info_old, out)
                     below == BelowMaxPrice(out, info_old.max_price)
                     notes == (IF restock THEN <<RestockNote(info_old.id)>> ELSE <<>>)
                              \o (IF below THEN <<ThresholdNote(info_old.id)>> ELSE <<>>)
                 IN
                 /\ products' = [products EXCEPT ![i] = UpdateProductInfo(info_old, out)]
                 /\ notified' = notes
                 /\ thread' = [thread EXCEPT ![t] =
                        [th EXCEPT !.i = i + 1,
                                   !.matched[i] = below,
                                   !.seen = Append(@, SeenEntry(info_old, out)),
                                   !.unchanged = @ /\ SameInfo(info_old, out),
                                   !.silent = @ /\ notes = <<>>]]
            ELSE \* lines 40-41 leave info = {}; line 46 or 53 reads
                 \* info["available"]
                 /\ products' = [products EXCEPT ![i] = FailedUpdate(info_old, out.kind)]
                 /\ notified' = <<>>
                 /\ thread' = [thread EXCEPT ![t] = Dies(th, "KeyError")]
    /\ reply' = NoReply
    /\ UNCHANGED <<lock, disp, nextId>>

\* Lines 64-68: remove the matched items, release the lock, sleep.
FinishRound(t) ==
    LET th == thread[t] IN
    /\ th.pc = "check"
    /\ th.i > th.n
    /\ IF Len(products) > Len(th.matched)
       THEN \* matched[i] past the end of the mask
            /\ thread' = [thread EXCEPT ![t] = Dies(th, "IndexError")]
            /\ UNCHANGED products
       ELSE /\ products' = KeepUnmatched(products, th.matched, 1)
            /\ thread' = [thread EXCEPT ![t] = Sleeps(th)]
    /\ notified' = <<>>
    /\ reply' = NoReply
    /\ UNCHANGED <<lock, disp, nextId>>

----------------------------------------------------------------------------
\* quichesaver.py: the command handlers, run by the dispatcher thread

\* An update reaches the dispatcher, which calls its handler.
Receive(c) ==
    /\ disp = "none"
    /\ disp' = c
    /\ reply' = NoReply
    /\ notified' = <<>>
    /\ UNCHANGED <<products, lock, thread, nextId>>

\* start, lines 71-84.
Start ==
    /\ disp = "start"
    /\ lock < MaxStarts
    /\ products' = <<>>
    /\ lock' = lock + 1
    /\ thread' = [thread EXCEPT ![lock + 1] = [NoThread EXCEPT !.pc = "wait"]]
    /\ reply' = Done("start", <<>>, "greeting")
    /\ disp' = "none"
    /\ notified' = <<>>
    /\ UNCHANGED nextId

\* add_item line 130: the capacity test.
TooManyItems(len) == len > MAX_ITEMS

\* A variant of the failure paths of add_item that appends a half-made
\* Product all the same.
NoProductButAppend(result) ==
    /\ reply' = Done("add", <<>>, result)
    /\ products' = Append(products, NewProduct(0, 1, FALSE, 1))
    /\ UNCHANGED nextId

\* add_item lines 121-126: Product() raised, so new_prod is unbound; the
\* handler returns after the error text (result "retrieve_error") or is left
\* by the exception (result "exception") before line 129.
NoProduct(result) ==
    /\ reply' = Done("add", <<>>, result)
    /\ UNCHANGED <<products, nextId>>

\* add_item, lines 99-140.
AddItem ==
    /\ disp = "add"
    /\ \/ \* lines 107-116: not two arguments, or the price is no number
          /\ reply' = Done("add", <<>>, "usage")
          /\ UNCHANGED <<products, nextId>>
       \/ \* lines 119-126: a store without parser (product.py:38-39) or a
          \* parser's ValueError
          NoProduct("retrieve_error")
       \/ \* Product() raises what line 121 does not catch: a page load
          \* timeout (product.py:55-57) or another exception of the driver
          \* or the parser
          NoProduct("exception")
       \/ \* Product() returns
          IF lock = 0
          THEN \* line 129: KeyError
               /\ reply' = Done("add", <<>>, "exception")
               /\ UNCHANGED <<products, nextId>>
          ELSE /\ LockFree(lock)
               /\ IF TooManyItems(Len(products))
                  THEN /\ reply' = Done("add", <<>>, "capacity")
                       /\ UNCHANGED <<products, nextId>>
                  ELSE \E price \in Prices, available \in BOOLEAN,
                          max_price \in MaxPrices :
                       /\ nextId <= MaxAdds
                       /\ products' = Append(products,
                              NewProduct(nextId, price, available, max_price))
                       /\ nextId' = nextId + 1
                       /\ reply' = Done("add", <<>>, "ok")
    /\ disp' = "none"
    /\ notified' = <<>>
    /\ UNCHANGED <<lock, thread>>

\* list.pop(index), as Python defines it: a negative index counts from the
\* end. 0 when the index is out of range, else the 1-based position removed.
PopPosition(len, index) ==
    LET idx == IF index < 0 THEN index + len ELSE index
    IN IF idx < 0 \/ idx >= len THEN 0 ELSE idx + 1

RemoveAt(seq, k) == SubSeq(seq, 1, k - 1) \o SubSeq(seq, k + 1, Len(seq))

\* remove_item, lines 143-163.
RemoveItem ==
    /\ disp = "remove"
    /\ IF lock = 0
       THEN \* line 149: KeyError
            /\ reply' = Done("remove", <<>>, "exception")
            /\ UNCHANGED products
       ELSE /\ LockFree(lock)
            /\ \/ \* int(index_str): ValueError
                  /\ reply' = Done("remove", <<>>, "remove_error")
                  /\ UNCHANGED products
               \/ \E position \in Positions :
                    LET k == PopPosition(Len(products), position - 1) IN
                    IF k = 0
                    THEN /\ reply' = Done("remove", <<position>>, "remove_error")
                         /\ UNCHANGED products
                    ELSE /\ reply' = Done("remove", <<position>>, "removed")
                         /\ products' = RemoveAt(products, k)
    /\ disp' = "none"
    /\ notified' = <<>>
    /\ UNCHANGED <<lock, thread, nextId>>

\* status, lines 166-181.
Status ==
    /\ disp = "status"
    /\ IF lock = 0
       THEN \* line 171: KeyError, after the first message
            reply' = Done("status", <<>>, "exception")
       ELSE /\ LockFree(lock)
            /\ reply' = Done("status", <<>>, "listed")
    /\ disp' = "none"
    /\ notified' = <<>>
    /\ UNCHANGED <<products, lock, thread, nextId>>

\* main, lines 210-211: a stop signal ends updater.idle(); the updater stops
\* the dispatcher thread once the handler it is running has returned. The
\* monitor threads are not daemon threads and nothing signals them.
Stop ==
    /\ disp = "none"
    /\ disp' = "stopped"
    /\ reply' = NoReply
    /\ notified' = <<>>
    /\ UNCHANGED <<products, lock, thread, nextId>>

----------------------------------------------------------------------------
Next ==
    \/ \E c \in Commands : Receive(c)
    \/ Stop
    \/ Start
    \/ AddItem
    \/ RemoveItem
    \/ Status
    \/ \E t \in Threads : BeginRound(t)
    \/ \E t \in Threads : CheckItem(t)
    \/ \E t \in Threads : FinishRound(t)

Spec == Init /\ [][Next]_vars

\* A step of some monitor thread, and the return of a handler that takes the
\* lock.
MonitorStep == \E t \in Threads : BeginRound(t) \/ CheckItem(t) \/ FinishRound(t)
LockingHandler == AddItem \/ RemoveItem \/ Status

\* Scheduling: while some monitor thread can take its next step, one of them
\* does (the sleeps end, an extraction returns or times out); a handler
\* waiting for the lock gets it at one of the times the lock is free (the
\* monitor threads sleep MONITOR_INTERVAL after each release).
Fairness == WF_vars(MonitorStep) /\ SF_vars(LockingHandler)

FairSpec == Spec /\ Fairness

----------------------------------------------------------------------------
\* Vocabulary of the properties

\* Steps of monitor thread t, read off a pair of states.
Releases(t) == thread[t].pc = "check" /\ thread'[t].pc \in {"wait", "dead"}
Finishes(t) == thread[t].pc = "check" /\ thread'[t].pc = "wait"
Checks(t) ==
    /\ thread[t].pc = "check" /\ thread'[t].pc = "check"
    /\ thread'[t].i = thread[t].i + 1

\* A handler returns (or is left by an exception) in this step.
Handles(c) == disp = c /\ disp' = "none"

Ids(seq) == {seq[k].id : k \in DOMAIN seq}
CountNotes(seq, note) == Cardinality({k \in DOMAIN seq : seq[k] = note})
Alive == {t \in Threads : thread[t].pc \in {"wait", "check"}}

\* The state of an item, as extracted or as held, meets its threshold.
MeetsThreshold(e) == e.available /\ e.price <= e.max_price

\* The items a round extracted at or below their max price.
MetInRound(th) == {k \in DOMAIN th.seen : MeetsThreshold(th.seen[k])}

\* C1: an item check, whatever its extraction returns or raises, leaves the
\* round running, so that the items after it are checked and the removal
\* step is reached.
C1_FailedItemDoesNotAbortRound ==
    [][\A t \in Threads :
        (thread[t].pc = "check" /\ thread[t].i <= thread[t].n
            /\ thread[t].i <= Len(products) /\ thread'[t] # thread[t])
        => thread'[t].pc = "check" /\ thread'[t].i = thread[t].i + 1]_vars

\* C2: no monitor loop is ended by a failed extraction.
C2_NoFailureEndsMonitoring ==
    \A t \in Threads : thread[t].pc = "dead" => thread[t].err # "KeyError"

\* C3: when a round releases the lock, the list is as long as it was when the
\* round acquired the lock, minus the number of items the round extracted
\* available at or below their max price.
C3_LengthAfterRound ==
    [][\A t \in Threads : Releases(t) =>
        Len(products') = thread[t].n - Cardinality(MetInRound(thread[t]))]_vars

\* C4: an item extracted available at or below its max price gets exactly one
\* threshold-met notification and is marked, and when the round releases the
\* lock every such item is absent from the list.
C4_NotifiedItemsRemoved ==
    [][\A t \in Threads :
        /\ Checks(t) =>
            LET k == thread[t].i
                e == thread'[t].seen[k]
            IN MeetsThreshold(e) =>
                /\ CountNotes(notified', ThresholdNote(e.id)) = 1
                /\ thread'[t].matched[k]
        /\ Releases(t) =>
            \A k \in MetInRound(thread[t]) :
                thread[t].seen[k].id \notin Ids(products')]_vars

\* C5 as stated: a round whose extractions all returned the price and
\* availability the records held sends nothing and leaves the list as it was.
C5_UnchangedRoundIsSilent ==
    [][\A t \in Threads :
        (Finishes(t) /\ thread[t].unchanged)
        => thread[t].silent /\ products' = products]_vars

\* C5 amended: a round whose extractions all returned the price and
\* availability the records held, none of them available at or below its
\* max price, sends nothing, and neither its checks nor its removal step
\* change the list.
C5_UnchangedRoundAboveThresholdIsSilent ==
    [][\A t \in Threads :
        /\ (Finishes(t) /\ thread[t].unchanged /\ MetInRound(thread[t]) = {})
           => thread[t].silent /\ products' = products
        /\ (Checks(t) /\ thread'[t].unchanged /\ MetInRound(thread'[t]) = {})
           => notified' = <<>> /\ products' = products]_vars

\* C5 witness: a round has checked all of its items, at least one, each
\* returned what the record held, above its threshold or unavailable, and
\* nothing was sent.
C5_Witness ==
    \E t \in Threads :
        /\ thread[t].pc = "check" /\ thread[t].n >= 1
        /\ thread[t].i > thread[t].n
        /\ Len(thread[t].seen) = thread[t].n
        /\ thread[t].unchanged
        /\ MetInRound(thread[t]) = {}
        /\ thread[t].silent
        /\ Len(products) = thread[t].n

C7_AppendNeverInsideRound ==
    [][Len(products') = Len(products) + 1
        => \A t \in Threads : ~(thread[t].pc = "check" /\ thread[t].i > 1)]_vars

\* C8: remove with an integer position outside 1..len(list) replies with the
\* error text and leaves the list unchanged; with a position inside it
\* removes the record at that position.
C8_RemoveChecksRange ==
    [][(Handles("remove") /\ lock # 0 /\ Len(reply'.arg) = 1) =>
        LET position == reply'.arg[1] IN
        IF position \in 1..Len(products)
        THEN /\ reply'.result = "removed"
             /\ products' = RemoveAt(products, position)
        ELSE /\ reply'.result = "remove_error"
             /\ products' = products]_vars

\* C9: add at or above MAX_ITEMS items replies with the capacity error and
\* appends nothing, and the list never holds more than MAX_ITEMS items.
C9_NeverMoreThanMaxItems == Len(products) <= MAX_ITEMS

\* C10: a session has at most one live monitor thread, and at most one round
\* in progress.
C10_SingleMonitorLoop ==
    /\ Cardinality(Alive) <= 1
    /\ Cardinality({t \in Threads : thread[t].pc = "check"}) <= 1

\* A check of monitor thread t whose extraction raised: the step that the
\* KeyError of line 46 or 53 ends.
FailedCheck(t) ==
    /\ thread[t].pc = "check"
    /\ thread'[t].pc = "dead" /\ thread'[t].err = "KeyError"

\* C11: the lock of a session is the same object from the session's first
\* start on; a monitor thread that reads or writes the list holds that lock,
\* and a handler changes the list only while no monitor thread is in a round.
C11_AccessUnderOneGuard ==
    [][/\ lock # 0 => lock' = lock
       /\ \A t \in Threads :
            (thread[t].pc = "check" /\ thread'[t] # thread[t])
            => thread[t].held = lock
       /\ (disp \in Commands /\ disp' = "none" /\ products' # products)
            => \A t \in Threads : thread[t].pc # "check"]_vars

\* C12: once the updater has stopped, every monitor loop eventually ends.
C12_CancelledLoopTerminates == (disp = "stopped") ~> (Alive = {})

\* C13: a check whose extraction fails, by timeout or by any other error,
\* adds exactly one to the item's unreachable_count.
C13_FailureCountsOnce ==
    [][\A t \in Threads : FailedCheck(t) =>
        LET i == thread[t].i IN
        /\ Len(products') = Len(products)
        /\ products'[i].unreachable_count = products[i].unreachable_count + 1]_vars

\* C14: a check whose extraction fails leaves the item's identity, price and
\* availability as they were before the attempt, and the list as long.
C14_FailureKeepsState ==
    [][\A t \in Threads : FailedCheck(t) =>
        LET i == thread[t].i IN
        /\ Len(products') = Len(products)
        /\ products'[i].id = products[i].id
        /\ products'[i].price = products[i].price
        /\ products'[i].available = products[i].available
        /\ products'[i].max_price = products[i].max_price]_vars

\* C14 witness: a round was ended by a failed extraction, a timeout, of an
\* item that is still in the list, available, at a price above 1.
C14_Witness ==
    \E t \in Threads : \E k \in DOMAIN products :
        /\ thread[t].pc = "dead" /\ thread[t].err = "KeyError"
        /\ products[k].unreachable_count = 1
        /\ products[k].available /\ products[k].price > 1

\* C15: an add whose Product() raised, whether the handler caught it
\* (unsupported store, ValueError) or not, leaves the list as it was and
\* uses up no Product.
C15_FailedCreationAddsNothing ==
    [][(Handles("add") /\ reply'.result \in {"retrieve_error", "exception"})
        => products' = products /\ nextId' = nextId]_vars

\* C15 witness: add just replied with the retrieval error text, and the list
\* holds the item that was there before.
C15_Witness ==
    /\ reply = Done("add", <<>>, "retrieve_error")
    /\ Len(products) = 1
    /\ nextId = 2

\* C16: every add ends with a text sent to the user: the confirmation, the
\* usage text, the retrieval error text or the capacity text; no add is left
\* by an exception.
C16_AddAlwaysReplies ==
    [][Handles("add")
        => reply'.result \in {"ok", "usage", "retrieve_error", "capacity"}]_vars

\* C17: a round extracts each item of the list once, in stored order, before
\* it releases the lock, and the list it leaves is the list of the unmarked
\* items in their order.
C17_EachItemOnceSurvivorsInOrder ==
    [][\A t \in Threads : Releases(t) =>
        /\ Len(thread[t].seen) = thread[t].n
        /\ Len(products) = thread[t].n
        /\ \A k \in 1..thread[t].n : thread[t].seen[k].id = products[k].id
        /\ products' = KeepUnmatched(products, thread[t].matched, 1)]_vars

\* C18: an add, remove or status whose handler runs while a monitor thread
\* holds the session's lock in a round eventually returns (the dispatcher
\* runs one handler at a time, so it is that handler's return that sets disp
\* to "none").
C18_WaitingCommandIsExecuted ==
    (disp \in {"add", "remove", "status"} /\ lock # 0 /\ ~LockFree(lock))
        ~> (disp = "none")

\* C18 witness: remove is being handled while a monitor thread, in a round
\* with an item still to check, holds the lock.
C18_Witness ==
    /\ disp = "remove"
    /\ \E t \in Threads :
        /\ thread[t].pc = "check" /\ thread[t].i <= thread[t].n
        /\ lock # 0 /\ thread[t].held = lock

\* C19: a monitor thread holds a lock only inside a round: when its round has
\* ended, by the removal step or by an exception, it holds none, and when no
\* thread is in a round the lock of a started session is free.
C19_LockReleasedWhenRoundEnds ==
    /\ \A t \in Threads : thread[t].pc # "check" => thread[t].held = 0
    /\ (lock # 0 /\ \A t \in Threads : thread[t].pc # "check") => LockFree(lock)

\* C19 witness: status took the lock and listed the items after the only
\* monitor thread was ended by the exception of a failed check.
C19_Witness ==
    /\ reply = Done("status", <<>>, "listed")
    /\ Alive = {}
    /\ \E t \in Threads : thread[t].pc = "dead" /\ thread[t].err = "KeyError"

====
